---- MODULE Spec2Model ----
(***************************************************************************)
(* woolly: the `check` command walks the dependency graph of a package of  *)
(* an upstream registry and asks, for every package it expands, whether    *)
(* Fedora packages it.  This module models commands/check.py (check,       *)
(* build_tree, _compute_stats_from_visited), the registry provider of      *)
(* languages/rust.py with the filters of languages/base.py, the disk cache *)
(* of cache.py and the counters of progress.py.                            *)
(*                                                                         *)
(* The recursion of build_tree is an explicit stack of frames; every frame *)
(* holds the parameters and locals of one call and the place it has        *)
(* reached.  The Rich tree is the set of its nodes, each with the path of  *)
(* child positions that leads to it from the root (<<>> is the root).      *)
(* Labels are markup text: a node keeps the facts its label is built from, *)
(* the license and the Fedora version list excepted.                       *)
(* The registry and dnf are the environment: what they answer is chosen    *)
(* when the request is made.                                               *)
(*                                                                         *)
(* Spec is one run of check up to its statistics.  The parts check is      *)
(* built from have specifications of their own, in which they are called   *)
(* in any order while time passes: StatsSpec (the statistics), CacheSpec   *)
(* (cache.py), RegistrySpec (fetch_package_info), FedoraSpec (the dnf      *)
(* queries), DevBuildSpec (the thread pool of the dev/build stage) and     *)
(* DepsSpec (get_normal_dependencies).  WalkSpec and FairSpec are the runs *)
(* of check without --version and --exclude, ClosureSpec the runs over a   *)
(* registry whose dependency lists are fixed.                              *)
(***************************************************************************)
EXTENDS Integers, Sequences, FiniteSets, TLC

(***************************************************************************)
(* Bounds of the model.                                                    *)
(***************************************************************************)
\* max_depth is drawn from 0..MaxDepthBound
MaxDepthBound == 2
\* the registry declares at most MaxEdges dependency edges during one run
MaxEdges == 2

(***************************************************************************)
(* The universe of inputs.                                                 *)
(***************************************************************************)
Pkgs == {"a", "b", "wa"}

\* Python's None, for an Optional[str]
None == "None"

\* the value of --version when one is given
PinnedVersion == "0.9"

\* the version requirement every declared edge carries
Req == "^1"

\* the newest_version the registry holds for a crate it knows
NewestVersion(name) ==
    CASE name = "a" -> "1.0"
      [] name = "b" -> "2.0"
      [] name = "wa" -> "3.0"
      [] name = "d" -> "4.0"

\* the characters of a package name or of a glob pattern
Chars(s) ==
    CASE s = "a" -> <<"a">>
      [] s = "b" -> <<"b">>
      [] s = "wa" -> <<"w", "a">>
      [] s = "d" -> <<"d">>
      [] s = "w*" -> <<"w", "*">>
      [] s = "?b" -> <<"?", "b">>
      [] s = "a-b" -> <<"a", "-", "b">>

\* the values of --exclude
ExcludeChoices == { <<>>, <<"?b", "w*">> }

\* the packages check is run on
Roots == {"a", "wa"}

\* languages/base.py Dependency
Dependency(name, optional, kind) ==
    [name |-> name, version_requirement |-> Req, optional |-> optional, kind |-> kind]

\* the edges a registry answer is made of: a required normal edge to every
\* package, an optional normal edge and a dev edge
DepUniverse ==
    { Dependency(n, FALSE, "normal") : n \in Pkgs }
        \cup { Dependency("b", TRUE, "normal"), Dependency("b", FALSE, "dev") }

SeqsUpTo(S, n) == UNION { [1..k -> S] : k \in 0..n }

(***************************************************************************)
(* State.                                                                  *)
(***************************************************************************)
VARIABLES
    args,           \* the command line of check: package, version, max_depth, optional, exclude
    pc,             \* where check is: "start", "tree", "done", "raised"
    stack,          \* the active build_tree calls, innermost last
    visited,        \* dict name -> (is_packaged, version, is_optional)
    visitedOrder,   \* the keys of visited in insertion order
    tree,           \* the nodes of the Rich tree built so far
    tracker,        \* ProgressTracker: started, finished, stopped, processed, total_discovered, events
    stats,          \* TreeStats computed by check, None before
    cache,          \* the disk cache: key -> [timestamp, value]
    now,            \* time.time()
    edgesServed,    \* number of dependency edges the registry has declared so far
    calls,          \* the requests made to the registry and to dnf, oldest first
    failed,         \* the requests answered by a server error or a transport failure
    cacheDirs,      \* the namespace directories that exist under CACHE_DIR
    provider,       \* the attributes of the provider object check configures
    lastCall,       \* the call made last by a caller of cache.py or of the provider, with its result
    hist,           \* what the callers of cache.py and of the provider have seen so far
    pool            \* the dev/build stage of check: the futures of the pool and the lists built

\* the state that belongs to the callers of cache.py, of the provider and to
\* the dev/build stage of check
auxvars == <<provider, lastCall, hist, pool>>

vars == <<args, pc, stack, visited, visitedOrder, tree, tracker, stats, cache, now,
          edgesServed, calls, failed, cacheDirs, provider, lastCall, hist, pool>>

(***************************************************************************)
(* cache.py                                                                *)
(***************************************************************************)
DEFAULT_CACHE_TTL == 604800
FEDORA_CACHE_TTL == 86400

CacheKey(namespace, key) == <<namespace, key>>

\* the Optional[Any] read_cache returns: None, or a stored value
CacheNone == [isNone |-> TRUE]
CacheSome(value) == [isNone |-> FALSE, value |-> value]

\* read_cache taking an entry as old as the ttl for expired
read_cacheExpiredAtTtl(c, namespace, key, ttl) ==
    IF CacheKey(namespace, key) \notin DOMAIN c
    THEN CacheNone
    ELSE LET entry == c[CacheKey(namespace, key)]
         IN  IF now - entry.timestamp >= ttl THEN CacheNone ELSE CacheSome(entry.value)

\* read_cache in the cache c: None for no file or an expired entry, the stored
\* value otherwise
read_cache(c, namespace, key, ttl) ==
    IF CacheKey(namespace, key) \notin DOMAIN c
    THEN CacheNone
    ELSE LET entry == c[CacheKey(namespace, key)]
         IN  IF now - entry.timestamp > ttl THEN CacheNone ELSE CacheSome(entry.value)

\* write_cache: the cache after the write
write_cache(c, namespace, key, value) ==
    [k \in DOMAIN c \cup {CacheKey(namespace, key)} |->
        IF k = CacheKey(namespace, key)
        THEN [timestamp |-> now, value |-> value]
        ELSE c[k]]

\* the cache c without the files of the namespaces in gone
Unlinked(c, gone) == [k \in { x \in DOMAIN c : x[1] \notin gone } |-> c[k]]

\* clear_cache unlinking the files of every directory whatever it is given
clear_cacheEverything(c, dirs, namespace) == Unlinked(c, dirs)

\* clear_cache: the files left.  A namespace given names one directory, none
\* given means every directory under CACHE_DIR (a file lies in the directory
\* of its namespace, which get_cache_path made before the file was written)
clear_cache(c, dirs, namespace) ==
    IF namespace # None
    THEN IF namespace \in dirs THEN Unlinked(c, {namespace}) ELSE c
    ELSE Unlinked(c, dirs)

\* the sequences without repetition of all the elements of S
Listings(S) ==
    { o \in [1..Cardinality(S) -> S] : \A i, j \in DOMAIN o : i # j => o[i] # o[j] }

\* clear_cache: the lists it can return.  The directory of the namespace
\* given is reported when it exists; with none given every directory is,
\* in the order iterdir yields them
clear_cacheReturns(dirs, namespace) ==
    IF namespace # None
    THEN IF namespace \in dirs THEN { <<namespace>> } ELSE { <<>> }
    ELSE Listings(dirs)

(***************************************************************************)
(* languages/rust.py: the crates.io provider.  A response of the registry  *)
(* is [failure, status, body]; failure means http.get raised (no response).*)
(***************************************************************************)
\* Optional[PackageInfo]: the fields the traversal reads
NoPackageInfo == [name |-> None, latest_version |-> None]
PackageInfo(name, latest_version) == [name |-> name, latest_version |-> latest_version]

\* what the cache holds for a crate: JSON false for a 404, the response otherwise
CachedNotFound == [json |-> "false"]
CachedCrate(name, newest_version) ==
    [json |-> "object", crate |-> [name |-> name, newest_version |-> newest_version]]

InfoResponses(name) ==
    { [failure |-> TRUE, status |-> 0, body |-> CachedNotFound],
      [failure |-> FALSE, status |-> 500, body |-> CachedNotFound],
      [failure |-> FALSE, status |-> 404, body |-> CachedNotFound],
      [failure |-> FALSE, status |-> 200, body |-> CachedCrate(name, NewestVersion(name))] }

\* fetch_package_info writing nothing to the cache for a 404
fetch_package_infoForgets404(c, package_name, resp) ==
    LET cache_key == <<"info", package_name>>
        cached == read_cache(c, "crates", cache_key, DEFAULT_CACHE_TTL)
    IN  IF ~cached.isNone
        THEN [raises |-> FALSE,
              info |-> IF cached.value.json = "false"
                       THEN NoPackageInfo
                       ELSE PackageInfo(cached.value.crate.name,
                                        cached.value.crate.newest_version),
              cache |-> c, requested |-> FALSE]
        ELSE IF resp.failure
        THEN [raises |-> TRUE, info |-> NoPackageInfo, cache |-> c, requested |-> TRUE]
        ELSE IF resp.status = 404
        THEN [raises |-> FALSE, info |-> NoPackageInfo, cache |-> c, requested |-> TRUE]
        ELSE IF resp.status # 200
        THEN [raises |-> TRUE, info |-> NoPackageInfo, cache |-> c, requested |-> TRUE]
        ELSE [raises |-> FALSE,
              info |-> PackageInfo(resp.body.crate.name, resp.body.crate.newest_version),
              cache |-> write_cache(c, "crates", cache_key, resp.body),
              requested |-> TRUE]

\* RustProvider.fetch_package_info in the cache c, the registry answering resp
\* when it is asked: [raises, info, cache, requested]
fetch_package_info(c, package_name, resp) ==
    LET cache_key == <<"info", package_name>>
        cached == read_cache(c, "crates", cache_key, DEFAULT_CACHE_TTL)
    IN  IF ~cached.isNone
        THEN [raises |-> FALSE,
              info |-> IF cached.value.json = "false"
                       THEN NoPackageInfo
                       ELSE PackageInfo(cached.value.crate.name,
                                        cached.value.crate.newest_version),
              cache |-> c, requested |-> FALSE]
        ELSE IF resp.failure
        THEN [raises |-> TRUE, info |-> NoPackageInfo, cache |-> c, requested |-> TRUE]
        ELSE IF resp.status = 404
        THEN [raises |-> FALSE, info |-> NoPackageInfo,
              cache |-> write_cache(c, "crates", cache_key, CachedNotFound),
              requested |-> TRUE]
        ELSE IF resp.status # 200
        THEN [raises |-> TRUE, info |-> NoPackageInfo, cache |-> c, requested |-> TRUE]
        ELSE [raises |-> FALSE,
              info |-> PackageInfo(resp.body.crate.name, resp.body.crate.newest_version),
              cache |-> write_cache(c, "crates", cache_key, resp.body),
              requested |-> TRUE]

\* the answers to a dependencies request that declare at most n edges
DepsResponses(n) ==
    { [failure |-> TRUE, status |-> 0, body |-> <<>>],
      [failure |-> FALSE, status |-> 500, body |-> <<>>],
      [failure |-> FALSE, status |-> 404, body |-> <<>>] }
        \cup { [failure |-> FALSE, status |-> 200, body |-> b] : b \in SeqsUpTo(DepUniverse, n) }

\* RustProvider.fetch_dependencies: [raises, deps, cache, requested]
fetch_dependencies(c, package_name, version, resp) ==
    LET cache_key == <<"deps", package_name, version>>
        cached == read_cache(c, "crates", cache_key, DEFAULT_CACHE_TTL)
    IN  IF ~cached.isNone
        THEN [raises |-> FALSE, deps |-> cached.value, cache |-> c, requested |-> FALSE]
        ELSE IF resp.failure
        THEN [raises |-> TRUE, deps |-> <<>>, cache |-> c, requested |-> TRUE]
        ELSE IF resp.status # 200
        THEN [raises |-> FALSE, deps |-> <<>>,
              cache |-> write_cache(c, "crates", cache_key, <<>>), requested |-> TRUE]
        ELSE [raises |-> FALSE, deps |-> resp.body,
              cache |-> write_cache(c, "crates", cache_key, resp.body), requested |-> TRUE]

(***************************************************************************)
(* languages/base.py: the part of the provider every language shares.      *)
(***************************************************************************)
\* get_normal_dependencies without the test of the kind
RECURSIVE NormalDepsAnyKind(_, _)
NormalDepsAnyKind(deps, include_optional) ==
    IF deps = <<>>
    THEN <<>>
    ELSE LET d == Head(deps)
             rest == NormalDepsAnyKind(Tail(deps), include_optional)
         IN  IF include_optional \/ ~d.optional
             THEN << <<d.name, d.version_requirement, d.optional>> >> \o rest
             ELSE rest

\* get_normal_dependencies returning every edge it keeps as a required one
RECURSIVE NormalDepsFlagLost(_, _)
NormalDepsFlagLost(deps, include_optional) ==
    IF deps = <<>>
    THEN <<>>
    ELSE LET d == Head(deps)
             rest == NormalDepsFlagLost(Tail(deps), include_optional)
         IN  IF d.kind = "normal" /\ (include_optional \/ ~d.optional)
             THEN << <<d.name, d.version_requirement, FALSE>> >> \o rest
             ELSE rest

\* get_normal_dependencies keeping the optional edges whatever was asked
RECURSIVE NormalDepsWithOptional(_, _)
NormalDepsWithOptional(deps, include_optional) ==
    IF deps = <<>>
    THEN <<>>
    ELSE LET d == Head(deps)
             rest == NormalDepsWithOptional(Tail(deps), include_optional)
         IN  IF d.kind = "normal"
             THEN << <<d.name, d.version_requirement, d.optional>> >> \o rest
             ELSE rest

\* the list comprehension of get_normal_dependencies: the normal edges, the
\* optional ones only on request, as (name, version_requirement, optional)
RECURSIVE NormalDeps(_, _)
NormalDeps(deps, include_optional) ==
    IF deps = <<>>
    THEN <<>>
    ELSE LET d == Head(deps)
             rest == NormalDeps(Tail(deps), include_optional)
         IN  IF d.kind = "normal" /\ (include_optional \/ ~d.optional)
             THEN << <<d.name, d.version_requirement, d.optional>> >> \o rest
             ELSE rest

\* LanguageProvider.get_normal_dependencies with a version given (build_tree
\* always gives one): [raises, deps, cache, requested]
get_normal_dependencies(c, package_name, version, include_optional, resp) ==
    LET fetched == fetch_dependencies(c, package_name, version, resp)
    IN  [raises |-> fetched.raises,
         deps |-> NormalDeps(fetched.deps, include_optional),
         cache |-> fetched.cache,
         requested |-> fetched.requested]

\* LanguageProvider.get_normal_dependencies with or without a version: with
\* none, get_latest_version asks for the package info first, and a package
\* the registry does not know has no dependencies
get_normal_dependencies_of(c, package_name, version, include_optional, inforesp, resp) ==
    IF version # None
    THEN get_normal_dependencies(c, package_name, version, include_optional, resp)
    ELSE LET latest == fetch_package_info(c, package_name, inforesp)
         IN  IF latest.raises
             THEN [raises |-> TRUE, deps |-> <<>>, cache |-> latest.cache,
                   requested |-> latest.requested]
             ELSE IF latest.info = NoPackageInfo
             THEN [raises |-> FALSE, deps |-> <<>>, cache |-> latest.cache,
                   requested |-> latest.requested]
             ELSE get_normal_dependencies(latest.cache, package_name,
                                          latest.info.latest_version, include_optional, resp)

\* LanguageProvider.normalize_package_name, on the characters of the name
normalize_package_name(package_name) == package_name

\* str.replace of one character by another
RECURSIVE Replace(_, _, _)
Replace(chars, old, new) ==
    IF chars = <<>>
    THEN <<>>
    ELSE <<IF Head(chars) = old THEN new ELSE Head(chars)>> \o Replace(Tail(chars), old, new)

\* RustProvider.get_alternative_names (languages/rust.py)
get_alternative_names(package_name) ==
    LET alt_underscore == Replace(package_name, "-", "_")
        alt_hyphen == Replace(package_name, "_", "-")
    IN  (IF alt_underscore # package_name THEN <<alt_underscore>> ELSE <<>>)
            \o (IF alt_hyphen # package_name THEN <<alt_hyphen>> ELSE <<>>)

\* what one run of dnf repoquery can do: print a matching package, print
\* nothing, or exit with an error (CalledProcessError)
DnfOutcomes == {"match", "empty", "failed"}

\* the (is_packaged, versions, package_names) of _repoquery_package
NotPackaged == <<FALSE, <<>>, <<>>>>
Packaged(package_name) == <<TRUE, <<"1">>, <<package_name>>>>

\* _repoquery_package taking a failed run for a run that found the package
repoquery_packageFailedFinds(c, package_name, outcome) ==
    LET cache_key == <<"repoquery", "rust", package_name>>
        cached == read_cache(c, "fedora", cache_key, FEDORA_CACHE_TTL)
        result == IF outcome # "empty" THEN Packaged(package_name) ELSE NotPackaged
    IN  IF ~cached.isNone
        THEN [result |-> cached.value, cache |-> c, ran |-> FALSE]
        ELSE [result |-> result,
              cache |-> write_cache(c, "fedora", cache_key, result),
              ran |-> TRUE]

\* LanguageProvider._repoquery_package: [result, cache, ran]
repoquery_package(c, package_name, outcome) ==
    LET cache_key == <<"repoquery", "rust", package_name>>
        cached == read_cache(c, "fedora", cache_key, FEDORA_CACHE_TTL)
        result == IF outcome = "match" THEN Packaged(package_name) ELSE NotPackaged
    IN  IF ~cached.isNone
        THEN [result |-> cached.value, cache |-> c, ran |-> FALSE]
        ELSE [result |-> result,
              cache |-> write_cache(c, "fedora", cache_key, result),
              ran |-> TRUE]

\* a query of check_fedora_packaging: the answer of _repoquery_package for
\* the name, after the queries made before it
Query(c, asked, name, outcome) ==
    LET r == repoquery_package(c, name, outcome)
    IN  [result |-> r.result, cache |-> r.cache,
         asked |-> Append(asked, [name |-> name, is_packaged |-> r.result[1]])]

\* the loop of check_fedora_packaging going through every alternative name,
\* the answer for the last one being the one it keeps
RECURSIVE TryAlternativesAll(_, _, _, _)
TryAlternativesAll(r, alts, i, dnf) ==
    IF i > Len(alts)
    THEN r
    ELSE TryAlternativesAll(Query(r.cache, r.asked, alts[i], dnf[alts[i]]), alts, i + 1, dnf)

\* the loop of check_fedora_packaging over the alternative names, from the
\* i-th on, r being the query made last
RECURSIVE TryAlternatives(_, _, _, _)
TryAlternatives(r, alts, i, dnf) ==
    IF r.result[1] \/ i > Len(alts)
    THEN r
    ELSE TryAlternatives(Query(r.cache, r.asked, alts[i], dnf[alts[i]]), alts, i + 1, dnf)

\* the names check_fedora_packaging may query for a package
QueryNames(package_name) ==
    {normalize_package_name(Chars(package_name))}
        \cup { get_alternative_names(Chars(package_name))[i] :
                 i \in 1..Len(get_alternative_names(Chars(package_name))) }

\* LanguageProvider.check_fedora_packaging, dnf giving each name's outcome:
\* [status, cache].  The versions of a packaged package are those of the
\* query; _get_provides_version may put the versions of the provides list in
\* their place, which is label text only.
check_fedora_packaging(c, package_name, dnf) ==
    LET normalized == normalize_package_name(Chars(package_name))
        first == Query(c, <<>>, normalized, dnf[normalized])
        last == TryAlternatives(first, get_alternative_names(Chars(package_name)), 1, dnf)
    IN  [status |-> IF last.result[1]
                    THEN [is_packaged |-> TRUE, versions |-> last.result[2],
                          package_names |-> last.result[3]]
                    ELSE [is_packaged |-> FALSE, versions |-> <<>>,
                          package_names |-> <<>>],
         cache |-> last.cache, asked |-> last.asked]

(***************************************************************************)
(* commands/check.py: the statistics.                                      *)
(***************************************************************************)
\* TreeStats(): the counters and lists _compute_stats_from_visited fills
TreeStats ==
    [total |-> 0, packaged |-> 0, missing |-> 0,
     missing_list |-> <<>>, packaged_list |-> <<>>,
     optional_total |-> 0, optional_packaged |-> 0, optional_missing |-> 0,
     optional_missing_list |-> <<>>]

\* StatsStep counting every missing package as a missing optional one
StatsStepOptionalUnchecked(st, pkg_name, entry) ==
    LET is_packaged == entry[1]
        is_optional == entry[3]
        s1 == [st EXCEPT !.total = @ + 1,
                         !.optional_total = IF is_optional THEN @ + 1 ELSE @]
    IN  IF is_packaged
        THEN [s1 EXCEPT !.packaged = @ + 1,
                        !.packaged_list = Append(@, pkg_name),
                        !.optional_packaged = IF is_optional THEN @ + 1 ELSE @]
        ELSE [s1 EXCEPT !.missing = @ + 1,
                        !.missing_list = Append(@, pkg_name),
                        !.optional_missing = @ + 1,
                        !.optional_missing_list = Append(@, pkg_name)]

\* StatsStep counting every packaged package as a packaged optional one
StatsStepPackagedUnflagged(st, pkg_name, entry) ==
    LET is_packaged == entry[1]
        is_optional == entry[3]
        s1 == [st EXCEPT !.total = @ + 1,
                         !.optional_total = IF is_optional THEN @ + 1 ELSE @]
    IN  IF is_packaged
        THEN [s1 EXCEPT !.packaged = @ + 1,
                        !.packaged_list = Append(@, pkg_name),
                        !.optional_packaged = @ + 1]
        ELSE [s1 EXCEPT !.missing = @ + 1,
                        !.missing_list = Append(@, pkg_name),
                        !.optional_missing = IF is_optional THEN @ + 1 ELSE @,
                        !.optional_missing_list =
                            IF is_optional THEN Append(@, pkg_name) ELSE @]

\* one turn of the loop of _compute_stats_from_visited
StatsStep(st, pkg_name, entry) ==
    LET is_packaged == entry[1]
        is_optional == entry[3]
        s1 == [st EXCEPT !.total = @ + 1,
                         !.optional_total = IF is_optional THEN @ + 1 ELSE @]
    IN  IF is_packaged
        THEN [s1 EXCEPT !.packaged = @ + 1,
                        !.packaged_list = Append(@, pkg_name),
                        !.optional_packaged = IF is_optional THEN @ + 1 ELSE @]
        ELSE [s1 EXCEPT !.missing = @ + 1,
                        !.missing_list = Append(@, pkg_name),
                        !.optional_missing = IF is_optional THEN @ + 1 ELSE @,
                        !.optional_missing_list =
                            IF is_optional THEN Append(@, pkg_name) ELSE @]

\* the loop over visited.items(), items being the keys in iteration order
RECURSIVE StatsLoop(_, _, _)
StatsLoop(st, v, items) ==
    IF items = <<>>
    THEN st
    ELSE StatsLoop(StatsStep(st, Head(items), v[Head(items)]), v, Tail(items))

\* _compute_stats_from_visited: a dict iterates in insertion order
compute_stats_from_visited(v, order) == StatsLoop(TreeStats, v, order)

(***************************************************************************)
(* commands/check.py: build_tree.                                          *)
(***************************************************************************)
\* fnmatch.fnmatch on the characters of a name and of a pattern: * matches
\* any run of characters, ? any one character, another character itself
RECURSIVE fnmatch(_, _)
fnmatch(name, pattern) ==
    IF pattern = <<>>
    THEN name = <<>>
    ELSE IF Head(pattern) = "*"
    THEN fnmatch(name, Tail(pattern)) \/ (name # <<>> /\ fnmatch(Tail(name), pattern))
    ELSE IF Head(pattern) = "?"
    THEN name # <<>> /\ fnmatch(Tail(name), Tail(pattern))
    ELSE name # <<>> /\ Head(name) = Head(pattern) /\ fnmatch(Tail(name), Tail(pattern))

\* the test of the dependency loop looking at the first pattern only
ExcludedByFirst(dep_name, exclude_patterns) ==
    /\ exclude_patterns # <<>>
    /\ fnmatch(Chars(dep_name), Chars(exclude_patterns[1]))

\* the test of the dependency loop: exclude_patterns is set and one matches
Excluded(dep_name, exclude_patterns) ==
    /\ exclude_patterns # <<>>
    /\ \E i \in 1..Len(exclude_patterns) :
           fnmatch(Chars(dep_name), Chars(exclude_patterns[i]))

\* the depth guard letting one more level through
DepthExceededLate(depth, max_depth) == depth > max_depth + 1

\* the depth guard
DepthExceeded(depth, max_depth) == depth > max_depth

\* the cycle guard never finding the package
AlreadyVisitedNever(v, package_name) == FALSE

\* the cycle guard finding only the packages Fedora has
AlreadyVisitedPackagedOnly(v, package_name) ==
    package_name \in DOMAIN v /\ v[package_name][1]

\* the cycle guard
AlreadyVisited(v, package_name) == package_name \in DOMAIN v

\* the assignment made in a dict of its own instead of the shared one
DictSetFresh(v, package_name, entry) == [k \in {package_name} |-> entry]

\* visited[package_name] = entry
DictSet(v, package_name, entry) ==
    [k \in DOMAIN v \cup {package_name} |-> IF k = package_name THEN entry ELSE v[k]]

\* the insertion order after visited[package_name] = ...
OrderSet(v, order, package_name) ==
    IF package_name \in DOMAIN v THEN order ELSE Append(order, package_name)

\* the not-found entry without the optional flag of the edge
NotFoundEntryRequired(is_optional_dep) == <<FALSE, None, FALSE>>

\* the entry recorded for a package the registry does not know
NotFoundEntry(is_optional_dep) == <<FALSE, None, is_optional_dep>>

\* the entry recorded after the Fedora query
StatusEntry(status, version, is_optional_dep) ==
    <<status.is_packaged, version, is_optional_dep>>

\* one call of build_tree: its parameters, its locals and the place reached
Frame(package_name, version, depth, is_optional_dep, path) ==
    [package_name |-> package_name, version |-> version, depth |-> depth,
     is_optional_dep |-> is_optional_dep, path |-> path,
     at |-> "guards", deps |-> <<>>, i |-> 1, children |-> 0]

\* the recursive call handing down the optional flag of the caller too
ChildFrameInherits(f, dep) ==
    [package_name |-> dep[1], version |-> None, depth |-> f.depth + 1,
     is_optional_dep |-> dep[3] \/ f.is_optional_dep,
     path |-> Append(f.path, f.children + 1),
     at |-> "guards", deps |-> <<>>, i |-> 1, children |-> 0]

\* the recursive call taking the version requirement of the edge as version
ChildFrameRequirement(f, dep) ==
    [package_name |-> dep[1], version |-> dep[2], depth |-> f.depth + 1,
     is_optional_dep |-> dep[3],
     path |-> Append(f.path, f.children + 1),
     at |-> "guards", deps |-> <<>>, i |-> 1, children |-> 0]

\* the recursive call made for the dependency dep = (name, requirement,
\* optional) by the call in frame f
ChildFrame(f, dep) ==
    Frame(dep[1], None, f.depth + 1, dep[3], Append(f.path, f.children + 1))

\* a node of the tree.  kind is "node" for a Tree, and for a string the
\* message it carries: "max_depth", "already_visited", "not_found"
Node(path, kind, name, optional, is_packaged, version) ==
    [path |-> path, kind |-> kind, name |-> name, optional |-> optional,
     is_packaged |-> is_packaged, version |-> version]

\* ProgressTracker.update
TrackerUpdate(t, discovered) ==
    [t EXCEPT !.processed = @ + 1, !.total_discovered = @ + discovered]

Top == stack[Len(stack)]

\* the stack after the innermost call has returned: the caller adds the
\* result to its node
Returned ==
    LET rest == SubSeq(stack, 1, Len(stack) - 1)
    IN  IF rest = <<>> THEN rest ELSE [rest EXCEPT ![Len(rest)].children = @ + 1]

\* the request was answered by a server error or not at all
ServerError(resp) == resp.failure \/ resp.status >= 500

Failure(op, name, resp, requested) ==
    IF requested /\ ServerError(resp) THEN {[op |-> op, name |-> name]} ELSE {}

Call(op, name) == [op |-> op, name |-> name]

\* ProgressTracker.start, finish and stop; events is the sequence of these
\* calls made so far
TrackerStart(t) == [t EXCEPT !.started = TRUE, !.events = Append(@, "start")]
TrackerFinish(t) == [t EXCEPT !.finished = TRUE, !.events = Append(@, "finish")]
TrackerStop(t) == [t EXCEPT !.stopped = TRUE, !.events = Append(@, "stop")]

\* the tracker stopped after finish() only, no finally around build_tree
TrackerAtExitNoFinally(t, returned) ==
    IF returned THEN TrackerStop(TrackerFinish(t)) ELSE t

\* the tracker when control leaves the try of check: finish() is called
\* after build_tree has returned, stop() in the finally on every path
TrackerAtExit(t, returned) ==
    IF returned THEN TrackerStop(TrackerFinish(t)) ELSE TrackerStop(t)

\* an exception leaves build_tree through every active call; the finally of
\* check stops the tracker
Raise ==
    /\ pc' = "raised"
    /\ stack' = <<>>
    /\ tracker' = TrackerAtExit(tracker, FALSE)

\* get_cache_path makes the directory of the namespace it is asked for:
\* the directories after a call for namespace
get_cache_path(dirs, namespace) == dirs \cup {namespace}

\* the state outside the traversal before anything has run: no cache
\* directory, a provider as constructed, no call made
AuxInit ==
    /\ cacheDirs = {}
    /\ provider = [fedora_release |-> None]
    /\ lastCall = [op |-> None]
    /\ hist = <<>>
    /\ pool = <<>>

Init ==
    /\ args \in [package : Roots, version : {None, PinnedVersion},
                 max_depth : 0..MaxDepthBound, optional : BOOLEAN,
                 exclude : ExcludeChoices]
    /\ pc = "start"
    /\ stack = <<>>
    /\ visited = <<>>
    /\ visitedOrder = <<>>
    /\ tree = {}
    /\ tracker = [started |-> FALSE, finished |-> FALSE, stopped |-> FALSE,
                  processed |-> 0, total_discovered |-> 0, events |-> <<>>]
    /\ stats = <<>>
    /\ cache = <<>>
    /\ now = 0
    /\ edgesServed = 0
    /\ calls = <<>>
    /\ failed = {}
    /\ AuxInit

\* check up to its call of build_tree: the root's package info is fetched,
\* the tracker started, the visited dict created
CheckStart ==
    /\ pc = "start"
    /\ \E resp \in InfoResponses(args.package) :
         LET r == fetch_package_info(cache, args.package, resp)
         IN  /\ cache' = r.cache
             /\ calls' = Append(calls, Call("fetch_package_info", args.package))
             /\ failed' = failed \cup Failure("info", args.package, resp, r.requested)
             /\ IF r.raises
                THEN /\ pc' = "raised"
                     /\ UNCHANGED <<stack, tracker>>
                ELSE /\ pc' = "tree"
                     /\ tracker' = TrackerStart(tracker)
                     /\ stack' = <<Frame(args.package, args.version, 0, FALSE, <<>>)>>
    /\ UNCHANGED <<args, visited, visitedOrder, tree, stats, now, edgesServed>>
    /\ UNCHANGED auxvars
    /\ cacheDirs' = get_cache_path(cacheDirs, "crates")

\* the two guards tried the other way round: the visited guard first
GuardTakenVisitedFirst(f, v, max_depth) ==
    IF AlreadyVisited(v, f.package_name) THEN "already_visited"
    ELSE IF DepthExceeded(f.depth, max_depth) THEN "max_depth"
    ELSE None

\* the guard that ends the call in frame f at its entry: the depth guard is
\* tried first, then the visited guard; None when the call goes on
GuardTaken(f, v, max_depth) ==
    IF DepthExceeded(f.depth, max_depth) THEN "max_depth"
    ELSE IF AlreadyVisited(v, f.package_name) THEN "already_visited"
    ELSE None

\* the already-visited string carrying the optional flag recorded in visited
VisitedLeafRecordedOptional(f, v) ==
    Node(f.path, "already_visited", f.package_name, v[f.package_name][3],
         v[f.package_name][1],
         IF v[f.package_name][1] THEN v[f.package_name][2] ELSE None)

\* the string returned for a package that is a key of visited: the optional
\* marker of this call, the recorded status, the recorded version if packaged
VisitedLeaf(f, v) ==
    Node(f.path, "already_visited", f.package_name, f.is_optional_dep,
         v[f.package_name][1],
         IF v[f.package_name][1] THEN v[f.package_name][2] ELSE None)

\* build_tree from its entry to the progress update: the depth guard, then
\* the visited guard, each returning a string
Guards ==
    /\ pc = "tree" /\ stack # <<>> /\ Top.at = "guards"
    /\ LET f == Top
           guard == GuardTaken(f, visited, args.max_depth)
       IN  IF guard = "max_depth"
           THEN /\ tree' = tree \cup {Node(f.path, "max_depth", f.package_name,
                                           f.is_optional_dep, FALSE, None)}
                /\ stack' = Returned
                /\ UNCHANGED tracker
           ELSE IF guard = "already_visited"
           THEN /\ tree' = tree \cup {VisitedLeaf(f, visited)}
                /\ stack' = Returned
                /\ UNCHANGED tracker
           ELSE /\ tracker' = TrackerUpdate(tracker, 0)
                /\ stack' = [stack EXCEPT ![Len(stack)].at = "version"]
                /\ UNCHANGED tree
    /\ UNCHANGED <<args, pc, visited, visitedOrder, stats, cache, now, edgesServed,
                   calls, failed>>
    /\ UNCHANGED auxvars
    /\ UNCHANGED cacheDirs

\* a package the registry does not know ending the call whether or not a
\* version was given
NotFoundEndsAlways(version, info) == info = NoPackageInfo

\* the package info is missing and ends the call: only when no version
\* was given
NotFoundEnds(version, info) == version = None /\ info = NoPackageInfo

\* build_tree: the package info is fetched and the version resolved; a
\* package the registry does not know is recorded and returned as a string
\* unless a version was given
ResolveVersion ==
    /\ pc = "tree" /\ stack # <<>> /\ Top.at = "version"
    /\ \E resp \in InfoResponses(Top.package_name) :
         LET f == Top
             r == fetch_package_info(cache, f.package_name, resp)
         IN  /\ cache' = r.cache
             /\ calls' = Append(calls, Call("fetch_package_info", f.package_name))
             /\ failed' = failed \cup Failure("info", f.package_name, resp, r.requested)
             /\ IF r.raises
                THEN Raise /\ UNCHANGED <<visited, visitedOrder, tree>>
                ELSE IF NotFoundEnds(f.version, r.info)
                THEN /\ visited' = DictSet(visited, f.package_name,
                                           NotFoundEntry(f.is_optional_dep))
                     /\ visitedOrder' = OrderSet(visited, visitedOrder, f.package_name)
                     /\ tree' = tree \cup {Node(f.path, "not_found", f.package_name,
                                                f.is_optional_dep, FALSE, None)}
                     /\ stack' = Returned
                     /\ UNCHANGED <<pc, tracker>>
                ELSE /\ stack' = [stack EXCEPT
                            ![Len(stack)].version =
                                IF f.version = None THEN r.info.latest_version ELSE @,
                            ![Len(stack)].at = "fedora"]
                     /\ UNCHANGED <<pc, tracker, visited, visitedOrder, tree>>
    /\ UNCHANGED <<args, stats, now, edgesServed>>
    /\ UNCHANGED auxvars
    /\ cacheDirs' = get_cache_path(cacheDirs, "crates")

\* build_tree: Fedora is asked, the result recorded in visited, the label
\* built and the Tree node created
CheckFedora ==
    /\ pc = "tree" /\ stack # <<>> /\ Top.at = "fedora"
    /\ \E dnf \in [QueryNames(Top.package_name) -> DnfOutcomes] :
         LET f == Top
             r == check_fedora_packaging(cache, f.package_name, dnf)
         IN  /\ cache' = r.cache
             /\ calls' = Append(calls, Call("check_fedora_packaging", f.package_name))
             /\ visited' = DictSet(visited, f.package_name,
                                   StatusEntry(r.status, f.version, f.is_optional_dep))
             /\ visitedOrder' = OrderSet(visited, visitedOrder, f.package_name)
             /\ tree' = tree \cup {Node(f.path, "node", f.package_name, f.is_optional_dep,
                                        r.status.is_packaged, f.version)}
             /\ stack' = [stack EXCEPT ![Len(stack)].at = "deps"]
    /\ UNCHANGED <<args, pc, tracker, stats, now, edgesServed, failed>>
    /\ UNCHANGED auxvars
    /\ cacheDirs' = get_cache_path(cacheDirs, "fedora")

\* build_tree: the normal dependencies are fetched, whatever the packaging
\* status, and the tracker told how many were found; responses are the
\* answers the registry can give to the dependencies request
FetchDepsFrom(responses) ==
    /\ pc = "tree" /\ stack # <<>> /\ Top.at = "deps"
    /\ \E resp \in responses :
         LET f == Top
             r == get_normal_dependencies(cache, f.package_name, f.version,
                                          args.optional, resp)
         IN  /\ cache' = r.cache
             /\ calls' = Append(calls, Call("get_normal_dependencies", f.package_name))
             /\ failed' = failed \cup Failure("deps", f.package_name, resp, r.requested)
             /\ edgesServed' = edgesServed + (IF r.requested THEN Len(resp.body) ELSE 0)
             /\ IF r.raises
                THEN Raise
                ELSE /\ stack' = [stack EXCEPT ![Len(stack)].deps = r.deps,
                                               ![Len(stack)].at = "loop"]
                     /\ tracker' = IF r.deps # <<>>
                                   THEN TrackerUpdate(tracker, Len(r.deps))
                                   ELSE tracker
                     /\ UNCHANGED pc
    /\ UNCHANGED <<args, visited, visitedOrder, tree, stats, now>>
    /\ UNCHANGED auxvars
    /\ cacheDirs' = get_cache_path(cacheDirs, "crates")

\* the registry answering with any list of edges it has left to declare
FetchDeps == FetchDepsFrom(DepsResponses(MaxEdges - edgesServed))

\* build_tree: one turn of the loop over the dependencies: an excluded one
\* is skipped, any other is recursed into
NextDependency ==
    /\ pc = "tree" /\ stack # <<>> /\ Top.at = "loop" /\ Top.i <= Len(Top.deps)
    /\ LET f == Top
           dep == f.deps[f.i]
           advanced == [stack EXCEPT ![Len(stack)].i = @ + 1]
       IN  IF Excluded(dep[1], args.exclude)
           THEN stack' = advanced
           ELSE stack' = Append(advanced, ChildFrame(f, dep))
    /\ UNCHANGED <<args, pc, visited, visitedOrder, tree, tracker, stats, cache, now,
                   edgesServed, calls, failed>>
    /\ UNCHANGED auxvars
    /\ UNCHANGED cacheDirs

\* build_tree: the loop is over and the node is returned
ReturnNode ==
    /\ pc = "tree" /\ stack # <<>> /\ Top.at = "loop" /\ Top.i > Len(Top.deps)
    /\ stack' = Returned
    /\ UNCHANGED <<args, pc, visited, visitedOrder, tree, tracker, stats, cache, now,
                   edgesServed, calls, failed>>
    /\ UNCHANGED auxvars
    /\ UNCHANGED cacheDirs

\* check after build_tree has returned: the tracker is finished and
\* stopped, the statistics computed from visited
CheckFinish ==
    /\ pc = "tree" /\ stack = <<>>
    /\ tracker' = TrackerAtExit(tracker, TRUE)
    /\ stats' = compute_stats_from_visited(visited, visitedOrder)
    /\ pc' = "done"
    /\ UNCHANGED <<args, stack, visited, visitedOrder, tree, cache, now, edgesServed,
                   calls, failed>>
    /\ UNCHANGED auxvars
    /\ UNCHANGED cacheDirs

Next ==
    \/ CheckStart
    \/ Guards
    \/ ResolveVersion
    \/ CheckFedora
    \/ FetchDeps
    \/ NextDependency
    \/ ReturnNode
    \/ CheckFinish

Spec == Init /\ [][Next]_vars

\* the runs in which every declared edge of kind normal is followed unless
\* it is optional: no version given, nothing excluded
FairInit == Init /\ args.version = None /\ args.exclude = <<>>

\* the same runs, any number of steps of them
WalkSpec == FairInit /\ [][Next]_vars

\* the traversal is one thread: a step that can be taken is taken
FairSpec == FairInit /\ [][Next]_vars /\ WF_vars(Next)

(***************************************************************************)
(* The statistics on their own: any visited dict a caller can hand to      *)
(* _compute_stats_from_visited, iterated in any order.                     *)
(***************************************************************************)
VisitedEntries == BOOLEAN \X {None, PinnedVersion} \X BOOLEAN

Dicts == UNION { [keys -> VisitedEntries] : keys \in SUBSET Pkgs }

\* the orders in which the keys of the dict v can have been inserted
Orders(v) ==
    { o \in [1..Cardinality(DOMAIN v) -> DOMAIN v] :
        \A i, j \in DOMAIN o : i # j => o[i] # o[j] }

StatsInit ==
    /\ args = [package |-> "a", version |-> None, max_depth |-> 0,
               optional |-> FALSE, exclude |-> <<>>]
    /\ pc = "stats"
    /\ stack = <<>>
    /\ visited \in Dicts
    /\ visitedOrder \in Orders(visited)
    /\ tree = {}
    /\ tracker = [started |-> FALSE, finished |-> FALSE, stopped |-> FALSE,
                  processed |-> 0, total_discovered |-> 0, events |-> <<>>]
    /\ stats = <<>>
    /\ cache = <<>>
    /\ now = 0
    /\ edgesServed = 0
    /\ calls = <<>>
    /\ failed = {}
    /\ AuxInit

ComputeStats ==
    /\ pc = "stats"
    /\ stats' = compute_stats_from_visited(visited, visitedOrder)
    /\ pc' = "stats_done"
    /\ UNCHANGED <<args, stack, visited, visitedOrder, tree, tracker, cache, now,
                   edgesServed, calls, failed>>
    /\ UNCHANGED auxvars
    /\ UNCHANGED cacheDirs

StatsNext == ComputeStats

StatsSpec == StatsInit /\ [][StatsNext]_vars

(***************************************************************************)
(* cache.py on its own: any caller writing, reading and clearing entries   *)
(* while time passes.  lastCall is the call made last with what it         *)
(* returned; hist.written is, for every key, the value and the time of the *)
(* write_cache made last and not cleared since; hist.ops counts the calls. *)
(***************************************************************************)
\* the number of calls and clock advances of one run
MaxCacheOps == 5

Namespaces == {"crates", "fedora"}
Keys == {"k1", "k2"}
Values == {"v1", "v2"}
Ttls == {FEDORA_CACHE_TTL, DEFAULT_CACHE_TTL}

\* the time that passes between two calls
Delays == {1, FEDORA_CACHE_TTL, DEFAULT_CACHE_TTL}

\* the traversal is not running
NoTraversal ==
    /\ args = [package |-> "a", version |-> None, max_depth |-> 0,
               optional |-> FALSE, exclude |-> <<>>]
    /\ stack = <<>>
    /\ visited = <<>>
    /\ visitedOrder = <<>>
    /\ tree = {}
    /\ tracker = [started |-> FALSE, finished |-> FALSE, stopped |-> FALSE,
                  processed |-> 0, total_discovered |-> 0, events |-> <<>>]
    /\ stats = <<>>
    /\ edgesServed = 0
    /\ calls = <<>>
    /\ failed = {}

travvars == <<args, stack, visited, visitedOrder, tree, tracker, stats, edgesServed,
              calls, failed>>

CacheInit ==
    /\ NoTraversal
    /\ pc = "cache"
    /\ cache = <<>>
    /\ cacheDirs = {}
    /\ now = 0
    /\ provider = [fedora_release |-> None]
    /\ lastCall = [op |-> None, n |-> 0]
    /\ hist = [written |-> <<>>, ops |-> 0]
    /\ pool = <<>>

\* a caller calls write_cache
WriteCache ==
    /\ pc = "cache" /\ hist.ops < MaxCacheOps
    /\ \E namespace \in Namespaces, key \in Keys, value \in Values :
         /\ cache' = write_cache(cache, namespace, key, value)
         /\ cacheDirs' = get_cache_path(cacheDirs, namespace)
         /\ lastCall' = [op |-> "write_cache", n |-> hist.ops + 1,
                         namespace |-> namespace, key |-> key]
         /\ hist' = [written |-> [k \in DOMAIN hist.written \cup {CacheKey(namespace, key)} |->
                                    IF k = CacheKey(namespace, key)
                                    THEN [value |-> value, time |-> now]
                                    ELSE hist.written[k]],
                     ops |-> hist.ops + 1]
    /\ UNCHANGED <<travvars, pc, now, provider, pool>>

\* a caller calls read_cache
ReadCache ==
    /\ pc = "cache" /\ hist.ops < MaxCacheOps
    /\ \E namespace \in Namespaces, key \in Keys, ttl \in Ttls :
         /\ cacheDirs' = get_cache_path(cacheDirs, namespace)
         /\ lastCall' = [op |-> "read_cache", n |-> hist.ops + 1,
                         namespace |-> namespace, key |-> key, ttl |-> ttl, at |-> now,
                         result |-> read_cache(cache, namespace, key, ttl)]
    /\ hist' = [hist EXCEPT !.ops = @ + 1]
    /\ UNCHANGED <<travvars, pc, cache, now, provider, pool>>

\* a caller calls clear_cache, for one namespace or for all
ClearCache ==
    /\ pc = "cache" /\ hist.ops < MaxCacheOps
    /\ \E namespace \in Namespaces \cup {None} :
         /\ cache' = clear_cache(cache, cacheDirs, namespace)
         /\ \E cleared \in clear_cacheReturns(cacheDirs, namespace) :
              lastCall' = [op |-> "clear_cache", n |-> hist.ops + 1,
                           namespace |-> namespace, result |-> cleared,
                           stored |-> Cardinality({ k \in DOMAIN cache :
                                          namespace \in {None, k[1]} })]
         /\ hist' = [written |-> [k \in { x \in DOMAIN hist.written :
                                             namespace \notin {None, x[1]} } |->
                                    hist.written[k]],
                     ops |-> hist.ops + 1]
    /\ UNCHANGED <<travvars, pc, cacheDirs, now, provider, pool>>

\* time passes
Tick ==
    /\ pc = "cache" /\ hist.ops < MaxCacheOps
    /\ \E d \in Delays : now' = now + d
    /\ hist' = [hist EXCEPT !.ops = @ + 1]
    /\ UNCHANGED <<travvars, pc, cache, cacheDirs, provider, lastCall, pool>>

CacheNext ==
    \/ WriteCache
    \/ ReadCache
    \/ ClearCache
    \/ Tick

CacheSpec == CacheInit /\ [][CacheNext]_vars

(***************************************************************************)
(* The registry provider on its own: fetch_package_info called again and   *)
(* again while time passes and the registry changes its mind.              *)
(* hist.answered is, for every name, the result and the time of the answer *)
(* (package data or 404) the registry gave last.                           *)
(***************************************************************************)
\* the number of calls and clock advances of one run
MaxRegistryOps == 5

\* the crates asked for, and the versions the registry may hold for them
Crates == {"a", "b"}
Versions == {"1.0", "1.1"}

\* what the registry can answer when asked for a crate
RegistryResponses(name) ==
    { [failure |-> TRUE, status |-> 0, body |-> CachedNotFound],
      [failure |-> FALSE, status |-> 500, body |-> CachedNotFound],
      [failure |-> FALSE, status |-> 404, body |-> CachedNotFound] }
        \cup { [failure |-> FALSE, status |-> 200, body |-> CachedCrate(name, v)] :
                 v \in Versions }

\* no answer received yet
NoAnswer == [some |-> FALSE, info |-> NoPackageInfo, time |-> 0]

RegistryInit ==
    /\ NoTraversal
    /\ pc = "registry"
    /\ cache = <<>>
    /\ cacheDirs = {}
    /\ now = 0
    /\ provider = [fedora_release |-> None]
    /\ lastCall = [op |-> None, n |-> 0]
    /\ hist = [answered |-> [name \in Crates |-> NoAnswer], ops |-> 0]
    /\ pool = <<>>

\* a caller calls fetch_package_info
FetchPackageInfo ==
    /\ pc = "registry" /\ hist.ops < MaxRegistryOps
    /\ \E name \in Crates :
         \E resp \in RegistryResponses(name) :
           LET r == fetch_package_info(cache, name, resp)
           IN  /\ cache' = r.cache
               /\ cacheDirs' = get_cache_path(cacheDirs, "crates")
               /\ lastCall' = [op |-> "fetch_package_info", n |-> hist.ops + 1,
                               name |-> name, at |-> now, raises |-> r.raises,
                               info |-> r.info, requested |-> r.requested,
                               answered |-> hist.answered[name]]
               /\ hist' = [answered |->
                              IF r.requested /\ ~r.raises
                              THEN [hist.answered EXCEPT
                                      ![name] = [some |-> TRUE, info |-> r.info, time |-> now]]
                              ELSE hist.answered,
                           ops |-> hist.ops + 1]
    /\ UNCHANGED <<travvars, pc, now, provider, pool>>

\* time passes between two calls
RegistryTick ==
    /\ pc = "registry" /\ hist.ops < MaxRegistryOps
    /\ \E d \in Delays : now' = now + d
    /\ hist' = [hist EXCEPT !.ops = @ + 1]
    /\ UNCHANGED <<travvars, pc, cache, cacheDirs, provider, lastCall, pool>>

RegistryNext ==
    \/ FetchPackageInfo
    \/ RegistryTick

RegistrySpec == RegistryInit /\ [][RegistryNext]_vars

(***************************************************************************)
(* The Fedora queries on their own: _repoquery_package and                 *)
(* check_fedora_packaging called while time passes and the release the     *)
(* provider is set to changes.  hist.ranUnder is, for every cache key, the  *)
(* fedora_release under which the dnf run that wrote its entry was made.   *)
(***************************************************************************)
\* the number of calls, settings and clock advances of one run
MaxFedoraOps == 5

\* the package asked for: a crate whose name has another spelling
FedoraPackages == {"a-b"}

\* the values of --release
Releases == {"41", "42"}

\* the time that passes between two queries
FedoraDelays == {1, FEDORA_CACHE_TTL}

RepoqueryKey(name) == CacheKey("fedora", <<"repoquery", "rust", name>>)

\* the keys a step has written: new in the cache or with another entry
WrittenKeys(c, d) == { k \in DOMAIN d : k \notin DOMAIN c \/ c[k] # d[k] }

\* hist.ranUnder after a step from the cache c to the cache d
RanUnder(c, d) ==
    [k \in DOMAIN hist.ranUnder \cup WrittenKeys(c, d) |->
        IF k \in WrittenKeys(c, d) THEN provider.fedora_release ELSE hist.ranUnder[k]]

FedoraInit ==
    /\ NoTraversal
    /\ pc = "fedora"
    /\ cache = <<>>
    /\ cacheDirs = {}
    /\ now = 0
    /\ provider = [fedora_release |-> None]
    /\ lastCall = [op |-> None, n |-> 0]
    /\ hist = [ranUnder |-> <<>>, ops |-> 0]
    /\ pool = <<>>

\* check sets the release it was given on the provider (a test sets it
\* more than once)
SetRelease ==
    /\ pc = "fedora" /\ hist.ops < MaxFedoraOps
    /\ \E release \in Releases : provider' = [provider EXCEPT !.fedora_release = release]
    /\ hist' = [hist EXCEPT !.ops = @ + 1]
    /\ UNCHANGED <<travvars, pc, cache, cacheDirs, now, lastCall, pool>>

\* a caller calls _repoquery_package
RepoqueryPackage ==
    /\ pc = "fedora" /\ hist.ops < MaxFedoraOps
    /\ \E package \in FedoraPackages :
         \E name \in QueryNames(package), outcome \in DnfOutcomes :
           LET r == repoquery_package(cache, name, outcome)
           IN  /\ cache' = r.cache
               /\ lastCall' = [op |-> "_repoquery_package", n |-> hist.ops + 1,
                               name |-> name, release |-> provider.fedora_release,
                               outcome |-> outcome, ran |-> r.ran, result |-> r.result]
               /\ hist' = [ranUnder |-> RanUnder(cache, r.cache), ops |-> hist.ops + 1]
    /\ cacheDirs' = get_cache_path(cacheDirs, "fedora")
    /\ UNCHANGED <<travvars, pc, now, provider, pool>>

\* a caller calls check_fedora_packaging
CheckFedoraPackaging ==
    /\ pc = "fedora" /\ hist.ops < MaxFedoraOps
    /\ \E package \in FedoraPackages :
         \E dnf \in [QueryNames(package) -> DnfOutcomes] :
           LET r == check_fedora_packaging(cache, package, dnf)
               ran == { q \in QueryNames(package) :
                          RepoqueryKey(q) \in WrittenKeys(cache, r.cache) }
           IN  /\ cache' = r.cache
               /\ lastCall' = [op |-> "check_fedora_packaging", n |-> hist.ops + 1,
                               package |-> package, status |-> r.status,
                               names |-> QueryNames(package),
                               asked |-> r.asked,
                               provided |-> { q \in QueryNames(package) :
                                                repoquery_package(cache, q, dnf[q]).result[1] },
                               failed |-> { q \in ran : dnf[q] = "failed" },
                               found |-> { q \in QueryNames(package) :
                                             /\ RepoqueryKey(q) \in DOMAIN r.cache
                                             /\ r.cache[RepoqueryKey(q)].value[1] }]
               /\ hist' = [ranUnder |-> RanUnder(cache, r.cache), ops |-> hist.ops + 1]
    /\ cacheDirs' = get_cache_path(cacheDirs, "fedora")
    /\ UNCHANGED <<travvars, pc, now, provider, pool>>

\* time passes between two queries
FedoraTick ==
    /\ pc = "fedora" /\ hist.ops < MaxFedoraOps
    /\ \E d \in FedoraDelays : now' = now + d
    /\ hist' = [hist EXCEPT !.ops = @ + 1]
    /\ UNCHANGED <<travvars, pc, cache, cacheDirs, provider, lastCall, pool>>

FedoraNext ==
    \/ SetRelease
    \/ RepoqueryPackage
    \/ CheckFedoraPackaging
    \/ FedoraTick

FedoraSpec == FedoraInit /\ [][FedoraNext]_vars

(***************************************************************************)
(* commands/check.py: the dev/build stage of check, for a root whose       *)
(* version is resolved.  The Fedora lookups of the direct dev and build    *)
(* dependencies run in a pool of threads over the shared disk cache.  A    *)
(* worker is two steps, the read of the cache and the run of dnf with the  *)
(* write of its result, so that two workers can both miss the cache.       *)
(* pool.results with pool.order is the dict results in insertion order.    *)
(***************************************************************************)
\* ThreadPoolExecutor(max_workers=4)
MaxWorkers == 4

\* a dev or build edge of the root
DirectDep(name, requirement, kind) ==
    [name |-> name, version_requirement |-> requirement, optional |-> FALSE, kind |-> kind]

\* the dev dependencies the root may declare, in declaration order
DevChoices ==
    { <<>>,
      <<DirectDep("a", "^1", "dev")>>,
      <<DirectDep("b", "^1", "dev"), DirectDep("a", "^1", "dev")>>,
      <<DirectDep("b", "^1", "dev"), DirectDep("a", "^1", "dev"), DirectDep("wa", "^1", "dev")>> }

\* the build dependencies the root may declare; b can be a dev dependency too
BuildChoices ==
    { <<>>,
      <<DirectDep("b", "^2", "build")>>,
      <<DirectDep("wa", "^1", "build"), DirectDep("b", "^2", "build")>> }

\* _check_fedora_for_dep: the DevBuildDepStatus of dep for the result of
\* its Fedora query
DevBuildDepStatus(dep, result) ==
    [name |-> dep.name, version_requirement |-> dep.version_requirement,
     is_packaged |-> result[1], fedora_packages |-> result[3]]

\* the lists read off the dict in the order its keys were inserted
StatusListByInsertion(deps, results, order) ==
    LET declared(name) == \E i \in 1..Len(deps) : deps[i].name = name
    IN  [i \in 1..Len(SelectSeq(order, declared)) |-> results[SelectSeq(order, declared)[i]]]

\* "Preserve original ordering": for dep in deps: append(results[dep.name])
StatusList(deps, results, order) == [i \in 1..Len(deps) |-> results[deps[i].name]]

Running == { i \in 1..Len(pool.futures) : pool.futures[i].state = "running" }
Queued == { i \in 1..Len(pool.futures) : pool.futures[i].state = "queued" }

DevBuildInit ==
    /\ NoTraversal
    /\ pc = "devbuild"
    /\ cache = <<>>
    /\ cacheDirs = {}
    /\ now = 0
    /\ provider = [fedora_release |-> None]
    /\ lastCall = [op |-> None, n |-> 0]
    /\ hist = <<>>
    /\ \E dev_deps \in DevChoices, build_deps \in BuildChoices :
         pool = [dev_deps |-> dev_deps, build_deps |-> build_deps, futures |-> <<>>,
                 results |-> <<>>, order |-> <<>>,
                 dev_deps_status |-> <<>>, build_deps_status |-> <<>>]

\* check submits one call of _check_fedora_for_dep per dev and build
\* dependency; with none to check the lists stay empty
SubmitAll ==
    /\ pc = "devbuild"
    /\ LET all_devbuild == pool.dev_deps \o pool.build_deps
       IN  IF all_devbuild = <<>>
           THEN /\ pc' = "devbuild_done"
                /\ UNCHANGED pool
           ELSE /\ pc' = "pool"
                /\ pool' = [pool EXCEPT !.futures =
                              [i \in 1..Len(all_devbuild) |->
                                 [dep |-> all_devbuild[i], state |-> "queued",
                                  cached |-> CacheNone, result |-> NotPackaged]]]
    /\ UNCHANGED <<travvars, cache, cacheDirs, now, provider, lastCall, hist>>

\* a free worker takes the oldest queued call and reads the cache
WorkerStart ==
    /\ pc = "pool"
    /\ Cardinality(Running) < MaxWorkers
    /\ \E i \in Queued :
         /\ \A j \in Queued : i <= j
         /\ pool' = [pool EXCEPT
                       !.futures[i].state = "running",
                       !.futures[i].cached =
                           read_cache(cache, "fedora",
                                      <<"repoquery", "rust", Chars(pool.futures[i].dep.name)>>,
                                      FEDORA_CACHE_TTL)]
    /\ cacheDirs' = get_cache_path(cacheDirs, "fedora")
    /\ UNCHANGED <<travvars, pc, cache, now, provider, lastCall, hist>>

\* a worker that missed the cache runs dnf and writes the result; its call
\* is complete
WorkerFinish ==
    /\ pc = "pool"
    /\ \E i \in Running :
         LET f == pool.futures[i]
             name == Chars(f.dep.name)
         IN  IF ~f.cached.isNone
             THEN /\ pool' = [pool EXCEPT !.futures[i].state = "done",
                                          !.futures[i].result = f.cached.value]
                  /\ UNCHANGED cache
             ELSE \E outcome \in DnfOutcomes :
                    LET result == IF outcome = "match" THEN Packaged(name) ELSE NotPackaged
                    IN  /\ pool' = [pool EXCEPT !.futures[i].state = "done",
                                                !.futures[i].result = result]
                        /\ cache' = write_cache(cache, "fedora",
                                                <<"repoquery", "rust", name>>, result)
    /\ UNCHANGED <<travvars, pc, cacheDirs, now, provider, lastCall, hist>>

\* as_completed yields a completed call and check stores its result under
\* the name of its dependency
Collect ==
    /\ pc = "pool"
    /\ \E i \in 1..Len(pool.futures) :
         /\ pool.futures[i].state = "done"
         /\ LET f == pool.futures[i]
            IN  pool' = [pool EXCEPT
                          !.futures[i].state = "collected",
                          !.results = DictSet(@, f.dep.name, DevBuildDepStatus(f.dep, f.result)),
                          !.order = OrderSet(pool.results, @, f.dep.name)]
    /\ UNCHANGED <<travvars, pc, cache, cacheDirs, now, provider, lastCall, hist>>

\* every call is collected: the two lists are built
BuildLists ==
    /\ pc = "pool"
    /\ \A i \in 1..Len(pool.futures) : pool.futures[i].state = "collected"
    /\ pool' = [pool EXCEPT
                  !.dev_deps_status = StatusList(pool.dev_deps, pool.results, pool.order),
                  !.build_deps_status = StatusList(pool.build_deps, pool.results, pool.order)]
    /\ pc' = "devbuild_done"
    /\ UNCHANGED <<travvars, cache, cacheDirs, now, provider, lastCall, hist>>

DevBuildNext ==
    \/ SubmitAll
    \/ WorkerStart
    \/ WorkerFinish
    \/ Collect
    \/ BuildLists

DevBuildSpec == DevBuildInit /\ [][DevBuildNext]_vars

(***************************************************************************)
(* get_normal_dependencies on its own: one call, for any list of edges the *)
(* registry can declare for the package, with or without a version.        *)
(* hist holds what the registry declares and how the call was made.        *)
(***************************************************************************)
\* the longest list of edges the registry declares
MaxDeclared == 3

\* the edges a declaration is made of: every kind, optional or not
DeclaredUniverse ==
    { Dependency(n, o, k) : n \in {"a", "b"}, o \in BOOLEAN, k \in {"normal", "dev", "build"} }

DepsInit ==
    /\ NoTraversal
    /\ pc = "deps"
    /\ cache = <<>>
    /\ cacheDirs = {}
    /\ now = 0
    /\ provider = [fedora_release |-> None]
    /\ lastCall = [op |-> None, n |-> 0]
    /\ \E declared \in SeqsUpTo(DeclaredUniverse, MaxDeclared),
          include_optional \in BOOLEAN, version \in {None, PinnedVersion} :
         hist = [declared |-> declared, include_optional |-> include_optional,
                 version |-> version]
    /\ pool = <<>>

\* a caller calls get_normal_dependencies for the package wa; the registry
\* answers the dependencies request with what it declares
GetNormalDependencies ==
    /\ pc = "deps"
    /\ \E inforesp \in InfoResponses("wa") :
         LET resp == [failure |-> FALSE, status |-> 200, body |-> hist.declared]
             r == get_normal_dependencies_of(cache, "wa", hist.version,
                                             hist.include_optional, inforesp, resp)
         IN  /\ cache' = r.cache
             /\ lastCall' = [op |-> "get_normal_dependencies", n |-> 1,
                             raises |-> r.raises, deps |-> r.deps,
                             known |-> inforesp.status = 200]
    /\ cacheDirs' = get_cache_path(cacheDirs, "crates")
    /\ pc' = "deps_done"
    /\ UNCHANGED <<travvars, now, provider, hist, pool>>

DepsNext == GetNormalDependencies

DepsSpec == DepsInit /\ [][DepsNext]_vars

(***************************************************************************)
(* The walk over a registry whose dependency lists are fixed: a depends on *)
(* b and wa, b on wa, wa on d, every edge a required normal one.           *)
(* hist.registry is the list the registry declares for each package.       *)
(***************************************************************************)
\* max_depth is drawn from 0..MaxClosureDepth
MaxClosureDepth == 2

ClosurePkgs == {"a", "b", "wa", "d"}

\* the lists of a, in the two orders the registry can declare them
Registries ==
    { [n \in ClosurePkgs |->
          CASE n = "a" -> first
            [] n = "b" -> <<Dependency("wa", FALSE, "normal")>>
            [] n = "wa" -> <<Dependency("d", FALSE, "normal")>>
            [] n = "d" -> <<>>] :
      first \in { <<Dependency("b", FALSE, "normal"), Dependency("wa", FALSE, "normal")>>,
                  <<Dependency("wa", FALSE, "normal"), Dependency("b", FALSE, "normal")>> } }

ClosureInit ==
    /\ args \in [package : {"a"}, version : {None},
                 max_depth : 0..MaxClosureDepth, optional : BOOLEAN,
                 exclude : {<<>>}]
    /\ pc = "start"
    /\ stack = <<>>
    /\ visited = <<>>
    /\ visitedOrder = <<>>
    /\ tree = {}
    /\ tracker = [started |-> FALSE, finished |-> FALSE, stopped |-> FALSE,
                  processed |-> 0, total_discovered |-> 0, events |-> <<>>]
    /\ stats = <<>>
    /\ cache = <<>>
    /\ now = 0
    /\ edgesServed = 0
    /\ calls = <<>>
    /\ failed = {}
    /\ cacheDirs = {}
    /\ provider = [fedora_release |-> None]
    /\ lastCall = [op |-> None]
    /\ hist \in [registry : Registries]
    /\ pool = <<>>

\* the registry answers the dependencies request with the list it holds for
\* the package, or the connection fails
ClosureFetchDeps ==
    FetchDepsFrom({ [failure |-> TRUE, status |-> 0, body |-> <<>>],
                    [failure |-> FALSE, status |-> 200,
                     body |-> hist.registry[Top.package_name]] })

ClosureNext ==
    \/ CheckStart
    \/ Guards
    \/ ResolveVersion
    \/ CheckFedora
    \/ ClosureFetchDeps
    \/ NextDependency
    \/ ReturnNode
    \/ CheckFinish

ClosureSpec == ClosureInit /\ [][ClosureNext]_vars

(***************************************************************************)
(* Properties.                                                             *)
(***************************************************************************)
IsPrefix(p, q) == Len(p) <= Len(q) /\ SubSeq(q, 1, Len(p)) = p

\* the children of the node at path p, as the set of their nodes
ChildrenOf(p) == { y \in tree : Len(y.path) = Len(p) + 1 /\ IsPrefix(p, y.path) }

\* the nodes that stand for a package build_tree resolved itself
Expansions(name) == { x \in tree : x.name = name /\ x.kind = "node" }

\* C1: on every dependency graph, cycles included, and for every max_depth
\* the traversal comes to an end (every query being answered), and no
\* package is expanded twice: a package met again below itself is a leaf
C1_TerminatesWithoutReexpansion ==
    /\ <>(pc \in {"done", "raised"})
    /\ [](\A name \in Pkgs : Cardinality(Expansions(name)) <= 1)

\* a cycle was met: an already-visited leaf lies below the node of its own package
C1_Witness ==
    /\ pc = "done"
    /\ \E x, y \in tree :
         /\ x.kind = "node" /\ y.kind = "already_visited" /\ x.name = y.name
         /\ x.path # y.path /\ IsPrefix(x.path, y.path)

\* C2: once a name is a key of visited, no step changes or removes its entry
C2_VisitedWrittenOnce ==
    [][\A name \in DOMAIN visited :
          name \in DOMAIN visited' /\ visited'[name] = visited[name]]_vars

\* a recorded package was referenced again by later edges, twice at least
C2_Witness ==
    /\ pc = "done"
    /\ \E x, y \in tree :
         /\ x.kind = "already_visited" /\ y.kind = "already_visited"
         /\ x.name = y.name /\ x.path # y.path

\* C3: the statistics of any visited dict add up
C3_StatsConservation ==
    pc = "stats_done" =>
        /\ stats.total = Cardinality(DOMAIN visited)
        /\ stats.packaged + stats.missing = stats.total
        /\ stats.optional_packaged + stats.optional_missing = stats.optional_total
        /\ stats.optional_total <= stats.total

\* statistics of a dict that holds packaged and missing, optional and required entries
C3_Witness ==
    /\ pc = "stats_done"
    /\ stats.optional_packaged = 1 /\ stats.optional_missing = 1
    /\ stats.total = 3 /\ stats.missing = 2

\* C4: no node of the returned tree is deeper than max_depth + 1, and the
\* nodes at max_depth + 1 are max-depth strings without children
C4_DepthBound ==
    pc = "done" =>
        \A x \in tree :
            /\ Len(x.path) <= args.max_depth + 1
            /\ Len(x.path) = args.max_depth + 1 =>
                   x.kind = "max_depth" /\ ChildrenOf(x.path) = {}

\* a dependency was truncated at max_depth + 1 below a chain of expanded packages
C4_Witness ==
    /\ pc = "done"
    /\ args.max_depth >= 1
    /\ \E x \in tree : Len(x.path) = args.max_depth + 1 /\ x.kind = "max_depth"

\* the registry's answer for the dependencies of the package of node x
DeclaredDeps(x) == cache[CacheKey("crates", <<"deps", x.name, x.version>>)].value

\* the declared edge is one the walk follows: normal, allowed by --optional,
\* matching no --exclude pattern
Followed(d) ==
    /\ d.kind = "normal"
    /\ args.optional \/ ~d.optional
    /\ \A i \in 1..Len(args.exclude) : ~fnmatch(Chars(d.name), Chars(args.exclude[i]))

FollowedDeps(x) == SelectSeq(DeclaredDeps(x), Followed)

\* C5: packaged or not, an expanded package has one child per followed
\* dependency, in the order the registry declared them
C5_ChildrenAreFollowedDeps ==
    pc = "done" =>
        \A x \in tree :
            x.kind = "node" =>
                /\ Cardinality(ChildrenOf(x.path)) = Len(FollowedDeps(x))
                /\ \A i \in 1..Len(FollowedDeps(x)) :
                       \E y \in tree :
                           /\ y.path = Append(x.path, i)
                           /\ y.name = FollowedDeps(x)[i].name
                           /\ y.optional = FollowedDeps(x)[i].optional

\* a packaged package was expanded into two children, the first of them expanded too
C5_Witness ==
    /\ pc = "done"
    /\ \E x, y, z \in tree :
         /\ x.kind = "node" /\ x.is_packaged
         /\ y.path = Append(x.path, 1) /\ y.kind = "node"
         /\ z.path = Append(x.path, 2) /\ z.name # y.name

\* the name matches one of the --exclude patterns
MatchesExclude(name) ==
    \E i \in 1..Len(args.exclude) : fnmatch(Chars(name), Chars(args.exclude[i]))

\* C6 as stated: a name matching an exclude pattern is never a key of
\* visited and never in the tree
C6_ExcludedNeverVisited ==
    \A name \in Pkgs :
        MatchesExclude(name) =>
            /\ name \notin DOMAIN visited
            /\ \A x \in tree : x.name # name

\* C6 amended: a name matching an exclude pattern, other than the package
\* check was run on, is never a key of visited and never in the tree
C6_ExcludedDependencyNeverVisited ==
    \A name \in Pkgs \ {args.package} :
        MatchesExclude(name) =>
            /\ name \notin DOMAIN visited
            /\ \A x \in tree : x.name # name

\* an expanded package declared an excluded dependency, which was skipped,
\* and another one, which became its child
C6_Witness ==
    /\ pc = "done"
    /\ \E x \in tree :
         /\ x.kind = "node"
         /\ \E i, j \in 1..Len(DeclaredDeps(x)) :
              /\ DeclaredDeps(x)[i].kind = "normal"
              /\ ~DeclaredDeps(x)[i].optional
              /\ DeclaredDeps(x)[i].name # args.package
              /\ MatchesExclude(DeclaredDeps(x)[i].name)
              /\ Followed(DeclaredDeps(x)[j])
         /\ Cardinality(ChildrenOf(x.path)) = 1

\* C7: a registry request answered by a server error, or not at all, makes
\* check raise, whether it asked for package info or for dependencies
C7_RegistryErrorsPropagate == failed # {} => pc = "raised"

\* the node of the caller of the call that made node x
ParentOf(x) == CHOOSE y \in tree : y.path = SubSeq(x.path, 1, Len(x.path) - 1)

\* the optional flag of the edge through which node x was reached, as the
\* registry declared it; the root is reached through no edge
EdgeOptional(x) ==
    IF x.path = <<>>
    THEN FALSE
    ELSE FollowedDeps(ParentOf(x))[x.path[Len(x.path)]].optional

\* the registry answered 404 for the package
NotKnown(name) ==
    /\ CacheKey("crates", <<"info", name>>) \in DOMAIN cache
    /\ cache[CacheKey("crates", <<"info", name>>)].value = CachedNotFound

CalledFor(op, name) == \E i \in 1..Len(calls) : calls[i] = Call(op, name)

\* C8: a package the registry does not know, resolved without a version,
\* is recorded as (False, None, optional flag of its edge) and returned as
\* a not-found string; Fedora is not asked, no dependencies are fetched,
\* and the statistics count it as missing
C8_NotFoundIsMissingLeaf ==
    \A name \in Pkgs :
        (NotKnown(name) /\ ~(name = args.package /\ args.version # None)) =>
            /\ (name # args.package \/ pc = "done") => name \in DOMAIN visited
            /\ name \in DOMAIN visited =>
                 /\ Expansions(name) = {}
                 /\ \E x \in tree :
                      /\ x.kind = "not_found" /\ x.name = name
                      /\ ChildrenOf(x.path) = {}
                      /\ visited[name] = <<FALSE, None, EdgeOptional(x)>>
                 /\ ~CalledFor("check_fedora_packaging", name)
                 /\ ~CalledFor("get_normal_dependencies", name)
                 /\ pc = "done" =>
                      /\ \E i \in 1..Len(stats.missing_list) : stats.missing_list[i] = name
                      /\ \A i \in 1..Len(stats.packaged_list) : stats.packaged_list[i] # name

\* an optional dependency turned out to be unknown to the registry
C8_Witness ==
    /\ pc = "done"
    /\ \E x \in tree : x.kind = "not_found" /\ x.path # <<>> /\ x.optional
    /\ stats.optional_missing >= 1

\* C9: a required dependency of an optional package is recorded as not optional
C9_OptionalityPerEdge ==
    \A x \in tree :
        (/\ x.kind \in {"node", "not_found"}
         /\ x.path # <<>>
         /\ visited[ParentOf(x).name][3]
         /\ ~EdgeOptional(x)) => ~visited[x.name][3]

\* an optional package was expanded and a required dependency of it recorded
C9_Witness ==
    /\ pc = "done"
    /\ \E x \in tree :
         /\ x.kind = "node" /\ x.path # <<>>
         /\ visited[ParentOf(x).name][3] /\ ParentOf(x).optional
         /\ ~EdgeOptional(x)

\* Fedora provides one of the names queried for the package
FedoraProvides(name) ==
    \E q \in QueryNames(name) :
        /\ CacheKey("fedora", <<"repoquery", "rust", q>>) \in DOMAIN cache
        /\ cache[CacheKey("fedora", <<"repoquery", "rust", q>>)].value[1]

\* the version build_tree is to record for the package of node x
OwnVersion(x) ==
    IF x.path = <<>> /\ args.version # None
    THEN args.version
    ELSE cache[CacheKey("crates", <<"info", x.name>>)].value.crate.newest_version

\* C10: an expanded package is recorded as (what Fedora answered for it,
\* the version given for the root or else its own newest version, the
\* optional flag of its edge), never with the version of its parent or
\* the requirement of the edge
C10_RecordedEntry ==
    \A x \in tree :
        x.kind = "node" =>
            /\ visited[x.name] = <<FedoraProvides(x.name), OwnVersion(x), EdgeOptional(x)>>
            /\ x.path # <<>> =>
                 /\ visited[x.name][2] = NewestVersion(x.name)
                 /\ visited[x.name][2] # visited[ParentOf(x).name][2]
                 /\ visited[x.name][2] # Req

\* below a root with a version given, a packaged dependency was recorded
C10_Witness ==
    /\ pc = "done"
    /\ args.version = PinnedVersion
    /\ \E x \in tree :
         /\ x.kind = "node" /\ Len(x.path) = 1
         /\ visited[x.name][1] /\ visited[x.name][3]

\* C11: without --optional no optional edge is followed: no node of the
\* tree was reached through an optional edge, no entry of visited is
\* optional, and the statistics count no optional package
C11_NoOptionalEdgeFollowed ==
    ~args.optional =>
        /\ \A x \in tree : ~x.optional
        /\ \A name \in DOMAIN visited : ~visited[name][3]
        /\ pc = "done" =>
             /\ stats.optional_total = 0
             /\ stats.optional_packaged = 0
             /\ stats.optional_missing = 0

\* without --optional an expanded package declared an optional edge and a
\* required one, and only the required one became a child
C11_Witness ==
    /\ pc = "done"
    /\ ~args.optional
    /\ \E x \in tree :
         /\ x.kind = "node"
         /\ \E i, j \in 1..Len(DeclaredDeps(x)) :
              /\ DeclaredDeps(x)[i].kind = "normal" /\ DeclaredDeps(x)[i].optional
              /\ ~MatchesExclude(DeclaredDeps(x)[i].name)
              /\ Followed(DeclaredDeps(x)[j])
         /\ Cardinality(ChildrenOf(x.path)) = 1

\* the packages the walk did not cut short at the depth guard or at the
\* visited guard: the expanded ones and the ones the registry does not know
Processed == { x \in tree : x.kind \in {"node", "not_found"} }

\* C12: the tracker is notified once for each package that passes the two
\* guards and never for another: when the walk is over its processed
\* count is the number of these packages
C12_TrackerOncePerPackage ==
    pc = "done" => tracker.processed = Cardinality(Processed)

\* C13: in the returned tree a package name has at most one expanded node
\* or not-found leaf, every other node is an already-visited or a max-depth
\* leaf without children, and the expanded nodes and not-found leaves are
\* as many as the keys of visited
C13_OneSubjectPerName ==
    pc = "done" =>
        /\ \A name \in Pkgs : Cardinality({ x \in Processed : x.name = name }) <= 1
        /\ \A x \in tree \ Processed :
               /\ x.kind \in {"already_visited", "max_depth"}
               /\ ChildrenOf(x.path) = {}
        /\ \A x \in Processed : x.name \in DOMAIN visited
        /\ Cardinality(Processed) = Cardinality(DOMAIN visited)

\* a package the registry does not know was met twice: a not-found leaf,
\* then an already-visited leaf
C13_Witness ==
    /\ pc = "done"
    /\ \E x, y \in tree :
         /\ x.kind = "not_found" /\ y.kind = "already_visited" /\ x.name = y.name

\* C16: read_cache returns the value of the write_cache made last for the
\* key when that entry is not older than the ttl and was not cleared, and
\* None when the key was never written, was cleared or is older than the ttl
C16_ReadReturnsLastWrite ==
    lastCall.op = "read_cache" =>
        LET k == CacheKey(lastCall.namespace, lastCall.key)
        IN  lastCall.result =
                IF k \in DOMAIN hist.written
                   /\ lastCall.at - hist.written[k].time <= lastCall.ttl
                THEN CacheSome(hist.written[k].value)
                ELSE CacheNone

\* an entry read with the short ttl was expired while the very same entry
\* is still returned for the long ttl
C16_Witness ==
    /\ lastCall.op = "read_cache"
    /\ lastCall.ttl = FEDORA_CACHE_TTL
    /\ lastCall.at = now
    /\ lastCall.result = CacheNone
    /\ read_cache(cache, lastCall.namespace, lastCall.key, DEFAULT_CACHE_TTL) # CacheNone

\* C17: clear_cache(ns) removes every entry of ns and leaves the entries
\* of the other namespaces readable with their values; clear_cache()
\* removes the entries of every namespace
C17_ClearFrame ==
    [][(lastCall'.op = "clear_cache" /\ lastCall'.n # lastCall.n) =>
          \A namespace \in Namespaces, key \in Keys, ttl \in Ttls :
              LET before == read_cache(cache, namespace, key, ttl)
                  after == read_cache(cache', namespace, key, ttl)
              IN  IF lastCall'.namespace \in {None, namespace}
                  THEN /\ after = CacheNone
                       /\ CacheKey(namespace, key) \notin DOMAIN cache'
                  ELSE /\ after = before
                       /\ CacheKey(namespace, key) \in DOMAIN cache
                              => CacheKey(namespace, key) \in DOMAIN cache']_vars

\* one namespace holding two entries was cleared and an entry of the other
\* namespace is still there
C17_Witness ==
    /\ lastCall.op = "clear_cache"
    /\ lastCall.namespace = "crates"
    /\ lastCall.stored = 2
    /\ \E key \in Keys :
         read_cache(cache, "fedora", key, DEFAULT_CACHE_TTL) # CacheNone

\* C18: clear_cache returns [] when no entry is stored in what it is asked
\* to clear: in the whole cache for clear_cache(), in the namespace for
\* clear_cache(ns)
C18_ClearEmptyReturnsNothing ==
    (lastCall.op = "clear_cache" /\ lastCall.stored = 0) => lastCall.result = <<>>

\* C19: once the registry has answered for a name, with package data or
\* with 404, every call of fetch_package_info for that name made within
\* the cache TTL of the answer returns the same result (None for not
\* found) and sends no request
C19_InfoMemoized ==
    (/\ lastCall.op = "fetch_package_info"
     /\ lastCall.answered.some
     /\ lastCall.at - lastCall.answered.time <= DEFAULT_CACHE_TTL) =>
        /\ ~lastCall.requested
        /\ ~lastCall.raises
        /\ lastCall.info = lastCall.answered.info

\* a name answered with 404 was asked for again, later but within the TTL
C19_Witness ==
    /\ lastCall.op = "fetch_package_info"
    /\ lastCall.answered.some
    /\ lastCall.answered.info = NoPackageInfo
    /\ lastCall.at > lastCall.answered.time
    /\ lastCall.at - lastCall.answered.time <= DEFAULT_CACHE_TTL
    /\ lastCall.info = NoPackageInfo

\* a run of dnf that failed makes _repoquery_package return (False, [], [])
FailedQueryNotPackaged ==
    (lastCall.op = "_repoquery_package" /\ lastCall.ran /\ lastCall.outcome = "failed") =>
        lastCall.result = NotPackaged

\* C14 as stated: a failed run of dnf makes _repoquery_package return
\* (False, [], []) and check_fedora_packaging report a package that is not
\* packaged, without versions and package names
C14_QueryFailureNotPackaged ==
    /\ FailedQueryNotPackaged
    /\ (lastCall.op = "check_fedora_packaging" /\ lastCall.failed # {}) =>
           lastCall.status = [is_packaged |-> FALSE, versions |-> <<>>,
                              package_names |-> <<>>]

\* C14 amended: a failed run of dnf makes _repoquery_package return
\* (False, [], []), and check_fedora_packaging then reports a package that
\* is not packaged, without versions and package names, unless the query
\* for another name of the package found it
C14_QueryFailureNotPackagedUnlessFound ==
    /\ FailedQueryNotPackaged
    /\ (lastCall.op = "check_fedora_packaging" /\ lastCall.failed # {}) =>
           \/ lastCall.status = [is_packaged |-> FALSE, versions |-> <<>>,
                                 package_names |-> <<>>]
           \/ /\ lastCall.status.is_packaged
              /\ lastCall.found \ lastCall.failed # {}

\* every query check_fedora_packaging made failed: for the name and for
\* its other spelling
C14_Witness ==
    /\ lastCall.op = "check_fedora_packaging"
    /\ lastCall.failed = lastCall.names
    /\ Cardinality(lastCall.names) = 2
    /\ ~lastCall.status.is_packaged

\* C20: a result served from the cache was written by a dnf run made under
\* the release the provider is set to now: a change of release makes the
\* next query run dnf again
C20_CachedPerRelease ==
    (lastCall.op = "_repoquery_package" /\ ~lastCall.ran) =>
        hist.ranUnder[RepoqueryKey(lastCall.name)] = lastCall.release

\* the list holds one entry per dependency, named as the dependency at the
\* same place of the declaration
EntryPerDependency(status, deps) ==
    /\ Len(status) = Len(deps)
    /\ \A i \in 1..Len(deps) : status[i].name = deps[i].name

\* C15: whatever the order in which the workers complete, the dev list and
\* the build list hold one entry per direct dev, respectively build,
\* dependency of the root, in the order of the declaration
C15_DevBuildListsInDeclaredOrder ==
    pc = "devbuild_done" =>
        /\ EntryPerDependency(pool.dev_deps_status, pool.dev_deps)
        /\ EntryPerDependency(pool.build_deps_status, pool.build_deps)

\* five calls went through the pool of four workers and the results were
\* collected in an order that is not the order of the declaration
C15_Witness ==
    /\ pc = "devbuild_done"
    /\ Len(pool.futures) > MaxWorkers
    /\ pool.order[1] # pool.dev_deps[1].name
    /\ Len(pool.dev_deps_status) = 3

\* the nodes a step adds to the tree
Added(kind) == { x \in tree' \ tree : x.kind = kind }

\* C21: the depth guard comes before the visited guard and records
\* nothing: a call deeper than max_depth returns a max-depth string, also
\* for a package that is a key of visited, and leaves visited as it is;
\* with max_depth 0 the root is resolved and recorded and every dependency
\* of it is a max-depth string that adds no key to visited
C21_DepthGuardFirst ==
    /\ [](\A x \in tree : Len(x.path) > args.max_depth => x.kind = "max_depth")
    /\ [][Added("max_depth") # {} => visited' = visited]_vars
    /\ []((pc = "done" /\ args.max_depth = 0) =>
             /\ DOMAIN visited = {args.package}
             /\ \E x \in Processed : x.path = <<>>
             /\ \A x \in tree : x.path # <<>> => x.kind = "max_depth")

\* beyond max_depth a package that is already a key of visited was met
\* again and was cut off all the same
C21_Witness ==
    /\ pc = "done"
    /\ args.max_depth = 1
    /\ \E x, y \in tree :
         /\ x.kind = "max_depth" /\ Len(x.path) = 2
         /\ y.kind = "node" /\ y.name = x.name
         /\ x.name \in DOMAIN visited

\* C22: a call within the depth limit for a key of visited returns a string
\* with the status recorded in visited (and the recorded version when
\* packaged) and the optional marker of the edge it came through; the step
\* asks neither the registry nor Fedora, starts no call and leaves visited
\* as it is
C22_VisitedLeafFromRecord ==
    /\ [](\A x \in tree :
            x.kind = "already_visited" =>
                /\ Len(x.path) <= args.max_depth
                /\ x.is_packaged = visited[x.name][1]
                /\ x.version = (IF visited[x.name][1] THEN visited[x.name][2] ELSE None)
                /\ x.optional = EdgeOptional(x)
                /\ ChildrenOf(x.path) = {})
    /\ [][Added("already_visited") # {} =>
            /\ visited' = visited
            /\ calls' = calls
            /\ cache' = cache
            /\ Len(stack') = Len(stack) - 1]_vars

\* a packaged package recorded through a required edge was met again
\* through an optional one
C22_Witness ==
    /\ pc = "done"
    /\ \E x \in tree :
         /\ x.kind = "already_visited"
         /\ x.optional /\ ~visited[x.name][3]
         /\ x.is_packaged

\* the keys of the dict v whose entry satisfies the flags given
Flagged(v, packaged, optional) ==
    { name \in DOMAIN v : v[name][1] \in packaged /\ v[name][3] \in optional }

\* the counters of a TreeStats, the lists left aside
Counters(st) ==
    <<st.total, st.packaged, st.missing,
      st.optional_total, st.optional_packaged, st.optional_missing>>

\* the elements of a list
Elements(list) == { list[i] : i \in 1..Len(list) }

\* C23: every counter of the statistics is the number of entries of
\* visited with the flags it stands for, and is the same in whatever order
\* the dict is iterated; the lists hold the same names in every order
C23_CountersByFlag ==
    pc = "stats_done" =>
        /\ stats.total = Cardinality(DOMAIN visited)
        /\ stats.packaged = Cardinality(Flagged(visited, {TRUE}, BOOLEAN))
        /\ stats.missing = Cardinality(Flagged(visited, {FALSE}, BOOLEAN))
        /\ stats.optional_total = Cardinality(Flagged(visited, BOOLEAN, {TRUE}))
        /\ stats.optional_packaged = Cardinality(Flagged(visited, {TRUE}, {TRUE}))
        /\ stats.optional_missing = Cardinality(Flagged(visited, {FALSE}, {TRUE}))
        /\ \A order \in Orders(visited) :
               LET other == compute_stats_from_visited(visited, order)
               IN  /\ Counters(other) = Counters(stats)
                   /\ Elements(other.missing_list) = Elements(stats.missing_list)
                   /\ Elements(other.packaged_list) = Elements(stats.packaged_list)
                   /\ Elements(other.optional_missing_list) =
                          Elements(stats.optional_missing_list)

\* statistics of a dict of three packages whose missing_list comes out in
\* another order when the dict is iterated in another order
C23_Witness ==
    /\ pc = "stats_done"
    /\ stats.total = 3 /\ stats.packaged = 1 /\ stats.optional_packaged = 0
    /\ \E order \in Orders(visited) :
         compute_stats_from_visited(visited, order).missing_list # stats.missing_list

\* C24: a package the registry does not know, walked with a version given,
\* is not cut short: Fedora is asked, visited records (what Fedora
\* answered, the version given, the optional flag of the call) and the
\* call returns a Tree node, not a not-found string
C24_GivenVersionNotCutShort ==
    (args.version # None /\ NotKnown(args.package)) =>
        /\ pc = "done" => args.package \in DOMAIN visited
        /\ args.package \in DOMAIN visited =>
             /\ CalledFor("check_fedora_packaging", args.package)
             /\ visited[args.package] =
                    <<FedoraProvides(args.package), args.version, FALSE>>
             /\ \E x \in tree : x.path = <<>> /\ x.kind = "node" /\ x.version = args.version
             /\ \A x \in tree : x.name = args.package => x.kind # "not_found"

\* the root is unknown to the registry, Fedora has it all the same, and
\* the dependencies of the version given were walked
C24_Witness ==
    /\ pc = "done"
    /\ args.version = PinnedVersion
    /\ NotKnown(args.package)
    /\ visited[args.package][1]
    /\ ChildrenOf(<<>>) # {}

\* the declared edge is returned: of kind normal, and optional only when
\* optional edges were asked for
Kept(d) == d.kind = "normal" /\ (hist.include_optional \/ ~d.optional)

\* C25: get_normal_dependencies returns the declared edges of kind normal,
\* no dev or build edge, the optional ones only with include_optional, in
\* the order of the declaration and each with its own optional flag; with
\* no version given and a package the registry does not know it returns []
C25_NormalDependenciesOnly ==
    (pc = "deps_done" /\ ~lastCall.raises) =>
        IF hist.version = None /\ ~lastCall.known
        THEN lastCall.deps = <<>>
        ELSE /\ Len(lastCall.deps) = Len(SelectSeq(hist.declared, Kept))
             /\ \A i \in 1..Len(lastCall.deps) :
                    LET d == SelectSeq(hist.declared, Kept)[i]
                    IN  lastCall.deps[i] = <<d.name, d.version_requirement, d.optional>>

\* with optional edges asked for, a declaration of a dev edge, an optional
\* normal edge and a required normal edge gave the two normal ones
C25_Witness ==
    /\ pc = "deps_done"
    /\ hist.include_optional
    /\ Len(hist.declared) = 3
    /\ hist.declared[1].kind = "dev"
    /\ Len(lastCall.deps) = 2
    /\ lastCall.deps[1][3] /\ ~lastCall.deps[2][3]

\* the names check_fedora_packaging goes through, in its order
NamesInOrder(package_name) ==
    <<normalize_package_name(Chars(package_name))>>
        \o get_alternative_names(Chars(package_name))

\* C26: check_fedora_packaging reports packaged exactly when the query for
\* the normalized name or for an alternative name finds the package; the
\* names are queried in order from the normalized one, none after the first
\* match; with no match versions and package_names are empty
C26_FirstMatchingName ==
    (pc = "fedora" /\ lastCall.op = "check_fedora_packaging") =>
        LET asked == lastCall.asked
            names == NamesInOrder(lastCall.package)
        IN  /\ lastCall.status.is_packaged <=> lastCall.provided # {}
            /\ Len(asked) >= 1 /\ Len(asked) <= Len(names)
            /\ \A i \in 1..Len(asked) :
                   /\ asked[i].name = names[i]
                   /\ asked[i].is_packaged <=> names[i] \in lastCall.provided
                   /\ asked[i].is_packaged => i = Len(asked)
            /\ ~lastCall.status.is_packaged =>
                   /\ Len(asked) = Len(names)
                   /\ lastCall.status.versions = <<>>
                   /\ lastCall.status.package_names = <<>>

\* Fedora provides both spellings and only the normalized one was queried
C26_Witness ==
    /\ pc = "fedora" /\ lastCall.op = "check_fedora_packaging"
    /\ lastCall.provided = lastCall.names
    /\ Cardinality(lastCall.names) = 2
    /\ Len(lastCall.asked) = 1
    /\ lastCall.status.is_packaged

\* the registry answered the package info request for the package with
\* the package
Known(name) ==
    /\ CacheKey("crates", <<"info", name>>) \in DOMAIN cache
    /\ cache[CacheKey("crates", <<"info", name>>)].value # CachedNotFound

\* the packages the followed edges of a known package lead to
EdgesFrom(name) ==
    IF Known(name)
    THEN { hist.registry[name][i].name :
             i \in { j \in 1..Len(hist.registry[name]) : Followed(hist.registry[name][j]) } }
    ELSE {}

\* the packages reached from the root by a path of at most k followed edges
RECURSIVE Within(_)
Within(k) ==
    IF k = 0
    THEN {args.package}
    ELSE Within(k - 1) \cup UNION { EdgesFrom(name) : name \in Within(k - 1) }

\* C27: when build_tree has returned, every package reached from the root
\* by a path of at most max_depth followed edges through packages the
\* registry knows is a key of visited, whatever the order of the lists
C27_ClosureWithinDepth ==
    pc = "done" => Within(args.max_depth) \subseteq DOMAIN visited

\* the node was reached from the root through required edges only
RequiredPath(x) == \A y \in tree : IsPrefix(y.path, x.path) => ~y.optional

\* C28: a package that is not packaged and is reached from the root through
\* required edges only is never in optional_missing_list, whatever optional
\* edges lead to it too and whatever the order of the dependency lists
C28_RequiredNeverOptionalMissing ==
    pc = "done" =>
        \A x \in tree :
            (RequiredPath(x) /\ x.name \in DOMAIN visited /\ ~visited[x.name][1]) =>
                x.name \notin Elements(stats.optional_missing_list)

\* every entry of the list has the name and the version requirement of the
\* dependency at its place
OwnEdge(status, deps) ==
    /\ Len(status) = Len(deps)
    /\ \A i \in 1..Len(deps) :
           /\ status[i].name = deps[i].name
           /\ status[i].version_requirement = deps[i].version_requirement

\* C29: whatever the interleaving of the workers, every dev or build
\* status entry carries the name and the version requirement of its own
\* dependency edge, also when a package is both a dev and a build dependency
C29_EntryOfOwnEdge ==
    pc = "devbuild_done" =>
        /\ OwnEdge(pool.dev_deps_status, pool.dev_deps)
        /\ OwnEdge(pool.build_deps_status, pool.build_deps)

\* the places of the call in the events of the tracker
Places(call) == { i \in 1..Len(tracker.events) : tracker.events[i] = call }

\* check is over: build_tree has returned or raised
Over == pc \in {"done", "raised"}

\* C30: a started tracker is stopped on every path, also when build_tree
\* raises; finish() is called only when build_tree has returned, and before
\* stop(); when build_tree raises no statistics are computed and check
\* goes no further
C30_TrackerStoppedOnEveryPath ==
    /\ tracker.started ~> tracker.stopped
    /\ []((Over /\ tracker.started) =>
             /\ Cardinality(Places("stop")) = 1
             /\ tracker.events[Len(tracker.events)] = "stop")
    /\ [](~Over => Places("stop") = {} /\ Places("finish") = {})
    /\ [](Places("finish") # {} =>
             /\ pc = "done"
             /\ \A i \in Places("finish"), j \in Places("stop") : i < j)
    /\ [](pc = "done" => Cardinality(Places("finish")) = 1)
    /\ [](pc = "raised" => stats = <<>> /\ Places("finish") = {})
    /\ [][pc = "raised" => pc' = "raised"]_vars

\* build_tree raised below the root, after the tracker had been updated,
\* and the tracker was stopped without having been finished
C30_Witness ==
    /\ pc = "raised"
    /\ tracker.events = <<"start", "stop">>
    /\ tracker.processed > 1
    /\ visited # <<>>

====
